---- MODULE Spec2Model ----
(***************************************************************************)
(* Model of BvhTranslator::reader (src/bvhTranslator.cpp): the BVH          *)
(* hierarchy parser, the per-frame motion traversal and the host-binding    *)
(* walk Node::mayaCreate.  The file content is a finite sequence of         *)
(* whitespace-delimited tokens; every `tokens >> x` of the source is one    *)
(* use of Extract below.                                                    *)
(***************************************************************************)
EXTENDS Integers, Sequences, FiniteSets, TLC

----------------------------------------------------------------------------
(* Bounds of the model *)

\* joints (ROOT, JOINT and End Site blocks) per generated file
MaxJoints == 3
\* channel names per ROOT/JOINT block of a generated file
MaxChannels == 1
\* value of the Frames: field of a generated file
MaxFrames == 2
\* elements the deque nodeQueue can hold before push_back throws std::bad_alloc
MemCapacity == 5

----------------------------------------------------------------------------
(* Tokens and numeric conversion *)

\* numeric tokens of the generated files: the token that prints the value v
NumTok(v) == CASE v = 0 -> "0" [] v = 1 -> "1" [] v = 2 -> "2" [] v = 3 -> "3"
               [] v = 4 -> "4" [] v = -1 -> "-1" [] OTHER -> "5"

\* std::stof / std::stoi convert the longest numeric prefix of the token and
\* throw std::invalid_argument when there is none: "1x" converts to 1.
NumPrefix == [t \in {"0", "1", "2", "3", "4", "5", "-1", "1x"} |->
                CASE t = "0" -> 0 [] t = "1" -> 1 [] t = "2" -> 2 [] t = "3" -> 3
                  [] t = "4" -> 4 [] t = "5" -> 5 [] t = "-1" -> -1 [] t = "1x" -> 1]

Converts(t) == t \in DOMAIN NumPrefix
stof(t) == NumPrefix[t]
stoi(t) == NumPrefix[t]

\* tokens >> target: the next token, or, once the stream is exhausted, the
\* target left as it was (the sentry fails before the string is cleared).
\* p is the number of tokens consumed so far.
Extract(toks, p, target) ==
    IF p < Len(toks) THEN [tok |-> toks[p + 1], pos |-> p + 1]
                     ELSE [tok |-> target, pos |-> p]

----------------------------------------------------------------------------
(* Generated input files *)

JointNames == <<"Hips", "Chest", "Neck", "Head", "Hand", "Toe">>
ChannelNames == <<"Xposition", "Yrotation", "Zrotation", "Xrotation">>

NameOf(k) == JointNames[((k - 1) % Len(JointNames)) + 1]
OffsetOf(k) == <<NumTok(k % 3), NumTok(0), NumTok((k + 1) % 3)>>

RECURSIVE Repeat(_, _)
Repeat(t, n) == IF n <= 0 THEN <<>> ELSE <<t>> \o Repeat(t, n - 1)

RECURSIVE ChannelList(_)
ChannelList(n) == IF n <= 0 THEN <<>> ELSE ChannelList(n - 1) \o <<ChannelNames[n]>>

\* A skeleton description sk lists the joints in declaration order, each with
\* its nesting depth d (0 for a ROOT), whether it is an End Site (e) and its
\* number of channels (c).

\* number of joints left open after joint k was declared
RECURSIVE OpenAfter(_, _)
OpenAfter(sk, k) ==
    IF k = 0 THEN 0
    ELSE IF sk[k].e THEN sk[k].d ELSE sk[k].d + 1

RECURSIVE ValidSkeleton(_, _)
ValidSkeleton(sk, k) ==
    IF k = 0 THEN TRUE
    ELSE /\ ValidSkeleton(sk, k - 1)
         /\ sk[k].d <= OpenAfter(sk, k - 1)
         /\ (k = 1 => sk[k].d = 0)
         /\ (sk[k].e => sk[k].d >= 1 /\ sk[k].c = 0)

\* a ROOT or JOINT block carries no channel or MaxChannels channels
Skeletons ==
    UNION { { sk \in [1..n -> [d : 0..(MaxJoints - 1), e : BOOLEAN, c : {0, MaxChannels}]] :
                ValidSkeleton(sk, n) } : n \in 1..MaxJoints }

JointBlock(sk, k) ==
    IF sk[k].e
    THEN <<"End", "Site", "{", "OFFSET">> \o OffsetOf(k) \o <<"}">>
    ELSE <<IF sk[k].d = 0 THEN "ROOT" ELSE "JOINT", NameOf(k), "{", "OFFSET">>
         \o OffsetOf(k)
         \o <<"CHANNELS", NumTok(sk[k].c)>> \o ChannelList(sk[k].c)

\* the HIERARCHY section: blocks in declaration order, closing the joints
\* that are no longer open before each block and at the end
RECURSIVE HierarchyTokens(_, _)
HierarchyTokens(sk, k) ==
    IF k = 0 THEN <<"HIERARCHY">>
    ELSE HierarchyTokens(sk, k - 1)
         \o Repeat("}", OpenAfter(sk, k - 1) - sk[k].d)
         \o JointBlock(sk, k)

RECURSIVE TotalChannels(_, _)
TotalChannels(sk, k) == IF k = 0 THEN 0 ELSE TotalChannels(sk, k - 1) + sk[k].c

RECURSIVE FrameValues(_, _)
FrameValues(f, n) == IF n <= 0 THEN <<>> ELSE FrameValues(f, n - 1) \o <<NumTok((f + n) % 5)>>

RECURSIVE MotionValues(_, _)
MotionValues(f, n) == IF f <= 0 THEN <<>> ELSE MotionValues(f - 1, n) \o FrameValues(f - 1, n)

BvhFile(sk, frames) ==
    HierarchyTokens(sk, Len(sk)) \o Repeat("}", OpenAfter(sk, Len(sk)))
    \o <<"MOTION", "Frames:", NumTok(frames), "Frame", "Time:", "1">>
    \o MotionValues(frames, TotalChannels(sk, Len(sk)))

WellFormedFiles == { BvhFile(sk, f) : sk \in Skeletons, f \in 0..MaxFrames }

\* tokens put in the place of a token of a well-formed file
WrongTokens == {"BADTOKEN", "}", "JOINT", "ROOT", "End", "MOTION", "-1", "1x", "2"}

Replaced(s) == { [s EXCEPT ![p] = t] : p \in 1..Len(s), t \in WrongTokens }
Truncated(s) == { SubSeq(s, 1, p) : p \in 0..(Len(s) - 1) }
\* the file with the CHANNELS clause of one channel-less block left out
WithoutChannels(s) ==
    { SubSeq(s, 1, p - 1) \o SubSeq(s, p + 2, Len(s)) :
        p \in { q \in 1..(Len(s) - 1) : s[q] = "CHANNELS" /\ s[q + 1] = "0" } }

\* the skeletons whose ROOT and JOINT blocks all carry MaxChannels channels
FullSkeletons == { sk \in Skeletons : \A k \in 1..Len(sk) : sk[k].e \/ sk[k].c = MaxChannels }

\* malformed files are derived from one-frame well-formed files
DamagedFiles ==
    UNION { Replaced(BvhFile(sk, 1)) \cup Truncated(BvhFile(sk, 1)) : sk \in FullSkeletons }
    \cup UNION { WithoutChannels(BvhFile(sk, 1)) : sk \in Skeletons }

InputFiles == WellFormedFiles \cup DamagedFiles

----------------------------------------------------------------------------
(* The Node class *)

\* value of a float that was never assigned
Indeterminate == "indeterminate"
\* nullptr, and the null MObject
Null == 0

\* Node::Node(): only the members with default initializers are set
NewNode ==
    [name |-> "", offset |-> <<Indeterminate, Indeterminate, Indeterminate>>,
     channels |-> <<>>, jointObj |-> Null, parent |-> Null, children |-> <<>>,
     channelValues |-> <<>>]

----------------------------------------------------------------------------
(* BvhTranslator::readNode *)

\* for (i < nbChannels) { tokens >> currentToken; node.channels.push_back(currentToken); }
RECURSIVE ReadChannels(_, _, _, _, _)
ReadChannels(toks, p, cur, n, chans) ==
    IF n <= 0 THEN [channels |-> chans, pos |-> p]
    ELSE LET x == Extract(toks, p, cur)
         IN ReadChannels(toks, x.pos, x.tok, n - 1, Append(chans, x.tok))

\* readNode taking a token other than CHANNELS after the OFFSET values as the
\* end of the block head: it returns true with no channel
readNode_ChannelsOptional(node, toks, p) ==
    LET nm == Extract(toks, p, node.name)
        t1 == Extract(toks, nm.pos, "")
        t2 == Extract(toks, t1.pos, t1.tok)
        o1 == Extract(toks, t2.pos, t2.tok)
        o2 == Extract(toks, o1.pos, o1.tok)
        o3 == Extract(toks, o2.pos, o2.tok)
        t3 == Extract(toks, o3.pos, o3.tok)
        t4 == Extract(toks, t3.pos, t3.tok)
        n0 == [node EXCEPT !.name = nm.tok]
        n1 == [n0 EXCEPT !.offset[1] = stof(o1.tok)]
        n2 == [n1 EXCEPT !.offset[2] = stof(o2.tok)]
        n3 == [n2 EXCEPT !.offset[3] = stof(o3.tok)]
    IN  IF t1.tok # "{" THEN [ret |-> "false", node |-> n0, pos |-> t1.pos]
        ELSE IF t2.tok # "OFFSET" THEN [ret |-> "false", node |-> n0, pos |-> t2.pos]
        ELSE IF ~Converts(o1.tok) THEN [ret |-> "throw", node |-> n0, pos |-> o1.pos]
        ELSE IF ~Converts(o2.tok) THEN [ret |-> "throw", node |-> n1, pos |-> o2.pos]
        ELSE IF ~Converts(o3.tok) THEN [ret |-> "throw", node |-> n2, pos |-> o3.pos]
        ELSE IF t3.tok # "CHANNELS" THEN [ret |-> "true", node |-> n3, pos |-> t3.pos]
        ELSE IF ~Converts(t4.tok) THEN [ret |-> "throw", node |-> n3, pos |-> t4.pos]
        ELSE LET ch == ReadChannels(toks, t4.pos, t4.tok, stoi(t4.tok), n3.channels)
             IN [ret |-> "true", node |-> [n3 EXCEPT !.channels = ch.channels],
                 pos |-> ch.pos]

\* ret is "true" or "false" as returned, or "throw" when std::stof / std::stoi
\* throws std::invalid_argument; node is the Node as it is left; pos is the
\* number of tokens consumed when readNode is left
readNode(node, toks, p) ==
    LET nm == Extract(toks, p, node.name)
        t1 == Extract(toks, nm.pos, "")
        t2 == Extract(toks, t1.pos, t1.tok)
        o1 == Extract(toks, t2.pos, t2.tok)
        o2 == Extract(toks, o1.pos, o1.tok)
        o3 == Extract(toks, o2.pos, o2.tok)
        t3 == Extract(toks, o3.pos, o3.tok)
        t4 == Extract(toks, t3.pos, t3.tok)
        n0 == [node EXCEPT !.name = nm.tok]
        n1 == [n0 EXCEPT !.offset[1] = stof(o1.tok)]
        n2 == [n1 EXCEPT !.offset[2] = stof(o2.tok)]
        n3 == [n2 EXCEPT !.offset[3] = stof(o3.tok)]
    IN  IF t1.tok # "{" THEN [ret |-> "false", node |-> n0, pos |-> t1.pos]
        ELSE IF t2.tok # "OFFSET" THEN [ret |-> "false", node |-> n0, pos |-> t2.pos]
        ELSE IF ~Converts(o1.tok) THEN [ret |-> "throw", node |-> n0, pos |-> o1.pos]
        ELSE IF ~Converts(o2.tok) THEN [ret |-> "throw", node |-> n1, pos |-> o2.pos]
        ELSE IF ~Converts(o3.tok) THEN [ret |-> "throw", node |-> n2, pos |-> o3.pos]
        ELSE IF t3.tok # "CHANNELS" THEN [ret |-> "false", node |-> n3, pos |-> t3.pos]
        ELSE IF ~Converts(t4.tok) THEN [ret |-> "throw", node |-> n3, pos |-> t4.pos]
        ELSE LET ch == ReadChannels(toks, t4.pos, t4.tok, stoi(t4.tok), n3.channels)
             IN [ret |-> "true", node |-> [n3 EXCEPT !.channels = ch.channels],
                 pos |-> ch.pos]

----------------------------------------------------------------------------
(* BvhTranslator::readAnimNode *)

\* returns true on both paths and reads no token; the node is left as it is
readAnimNode(node, toks, p, currentTime) ==
    IF node.channels = <<>>
    THEN [ret |-> TRUE, node |-> node, pos |-> p]
    ELSE [ret |-> TRUE, node |-> node, pos |-> p]

----------------------------------------------------------------------------
(* State of one call of BvhTranslator::reader *)

VARIABLES
    tokens,         \* the file content, as its whitespace-delimited tokens
    pos,            \* tokens consumed from the stream so far
    currentToken,   \* reader's local currentToken
    nodes,          \* the Nodes allocated with new, in allocation order
    rootVect,       \* reader's rootVect: Node ids
    nodeQueue,      \* reader's nodeQueue: Node ids, back is the last element
    pc,             \* the statement reader is at
    nbFrames, timeFrame, time,
    i,              \* the frame index of the loop at line 328
    rootIndex,      \* position of the range-for over rootVect (lines 329, 350)
    node,           \* the Node popped at line 332
    childIndex,     \* childIndex of the loop at line 338 (0-based)
    callStack,      \* active calls of Node::mayaCreate: <<Node id, next child>>
    requests,       \* what the host was asked to do, in order
    result          \* how reader ended

vars == <<tokens, pos, currentToken, nodes, rootVect, nodeQueue, pc, nbFrames,
          timeFrame, time, i, rootIndex, node, childIndex, callStack, requests,
          result>>

streamVars == <<pos, currentToken>>
treeVars == <<nodes, rootVect>>
motionVars == <<nbFrames, timeFrame, time, i, rootIndex, node, childIndex>>
hostVars == <<callStack, requests>>

Init ==
    /\ tokens \in InputFiles
    /\ pos = 0
    /\ currentToken = ""
    /\ nodes = <<>>
    /\ rootVect = <<>>
    /\ nodeQueue = <<>>
    /\ pc = "open"
    /\ nbFrames = 0 /\ timeFrame = 0 /\ time = 0
    /\ i = 0 /\ rootIndex = 1 /\ node = Null /\ childIndex = 0
    /\ callStack = <<>>
    /\ requests = <<>>
    /\ result = "none"

Back(q) == q[Len(q)]
PopBack(q) == SubSeq(q, 1, Len(q) - 1)

\* Link with the push_back onto the parent's children left out
Link_NoPush(ns, top, nd) == Append(ns, [nd EXCEPT !.parent = top])

\* Link with the child put at the front of the parent's children
Link_PushFront(ns, top, nd) ==
    [Append(ns, [nd EXCEPT !.parent = top]) EXCEPT ![top].children = <<Len(ns) + 1>> \o @]

\* the Node nd, just allocated, is made the last child of top:
\* top->children.push_back(node); node->parent = top;  (lines 250-251, 271-272)
Link(ns, top, nd) ==
    [Append(ns, [nd EXCEPT !.parent = top]) EXCEPT ![top].children = Append(@, Len(ns) + 1)]

\* the Nodes reader has deleted: reader holds no delete expression, and
\* Node::~Node (line 110) releases nothing
Released == {}

\* reader is left: by return MS::kFailure, by return rval, or by an exception
\* that nothing in reader catches
Leave(how) == pc' = "done" /\ result' = how

\* lines 208-213: the file cannot be opened
OpenFails ==
    /\ pc = "open"
    /\ Leave("failure")
    /\ UNCHANGED <<tokens, streamVars, treeVars, nodeQueue, motionVars, hostVars>>

\* lines 208-219: the file is opened and its content put into the token stream
OpenFile ==
    /\ pc = "open"
    /\ pc' = "start"
    /\ UNCHANGED <<tokens, streamVars, treeVars, nodeQueue, motionVars, hostVars, result>>

\* lines 223-229
ReadHierarchyKeyword ==
    /\ pc = "start"
    /\ LET h == Extract(tokens, pos, currentToken)
           r == Extract(tokens, h.pos, h.tok)
       IN IF h.tok # "HIERARCHY"
          THEN /\ Leave("failure")
               /\ pos' = h.pos /\ currentToken' = h.tok
          ELSE /\ pc' = "roots" /\ result' = result
               /\ pos' = r.pos /\ currentToken' = r.tok
    /\ UNCHANGED <<tokens, treeVars, nodeQueue, motionVars, hostVars>>

\* lines 234-241: one ROOT block
ParseRoot ==
    /\ pc = "roots"
    /\ currentToken = "ROOT"
    /\ LET rn == readNode(NewNode, tokens, pos)
           root == Len(nodes) + 1
       IN /\ nodes' = Append(nodes, rn.node)
          /\ pos' = rn.pos
          /\ CASE rn.ret = "true" ->
                    /\ rootVect' = Append(rootVect, root)
                    /\ nodeQueue' = Append(nodeQueue, root)
                    /\ pc' = "body" /\ result' = result
               [] rn.ret = "false" ->
                    /\ Leave("failure")
                    /\ UNCHANGED <<rootVect, nodeQueue>>
               [] rn.ret = "throw" ->
                    /\ Leave("invalid_argument")
                    /\ UNCHANGED <<rootVect, nodeQueue>>
    /\ UNCHANGED <<tokens, currentToken, motionVars, hostVars>>

\* lines 242-253: a JOINT block inside an open joint
ParseJoint ==
    /\ pc = "body"
    /\ nodeQueue # <<>>
    /\ LET t == Extract(tokens, pos, currentToken)
           rn == readNode(NewNode, tokens, t.pos)
           new == Len(nodes) + 1
           top == Back(nodeQueue)
       IN /\ t.tok = "JOINT"
          /\ currentToken' = t.tok
          /\ pos' = rn.pos
          /\ CASE rn.ret = "true" ->
                    /\ nodes' = Link(nodes, top, rn.node)
                    /\ nodeQueue' = Append(nodeQueue, new)
                    /\ pc' = pc /\ result' = result
               [] rn.ret = "false" ->
                    /\ nodes' = Append(nodes, rn.node)
                    /\ Leave("failure")
                    /\ UNCHANGED nodeQueue
               [] rn.ret = "throw" ->
                    /\ nodes' = Append(nodes, rn.node)
                    /\ Leave("invalid_argument")
                    /\ UNCHANGED nodeQueue
    /\ UNCHANGED <<tokens, rootVect, motionVars, hostVars>>

\* ParseEndSite pushing the End Node on nodeQueue as line 252 does for a JOINT
ParseEndSite_Pushed ==
    /\ pc = "body"
    /\ nodeQueue # <<>>
    /\ LET t == Extract(tokens, pos, currentToken)
           nm == Extract(tokens, t.pos, NewNode.name)
           t1 == Extract(tokens, nm.pos, t.tok)
           t2 == Extract(tokens, t1.pos, t1.tok)
           o1 == Extract(tokens, t2.pos, t2.tok)
           o2 == Extract(tokens, o1.pos, o1.tok)
           o3 == Extract(tokens, o2.pos, o2.tok)
           t3 == Extract(tokens, o3.pos, o3.tok)
           top == Back(nodeQueue)
           n0 == [NewNode EXCEPT !.name = nm.tok]
           n1 == [n0 EXCEPT !.offset[1] = stof(o1.tok)]
           n2 == [n1 EXCEPT !.offset[2] = stof(o2.tok)]
           n3 == [n2 EXCEPT !.offset[3] = stof(o3.tok)]
           linked == Link(nodes, top, n3)
           Stop(how, n, x) == /\ Leave(how)
                              /\ nodes' = Append(nodes, n)
                              /\ pos' = x.pos /\ currentToken' = x.tok
                              /\ UNCHANGED nodeQueue
       IN /\ t.tok = "End"
          /\ IF t1.tok # "{" THEN Stop("failure", n0, t1)
             ELSE IF t2.tok # "OFFSET" THEN Stop("failure", n0, t2)
             ELSE IF ~Converts(o1.tok) THEN Stop("invalid_argument", n0, o1)
             ELSE IF ~Converts(o2.tok) THEN Stop("invalid_argument", n1, o2)
             ELSE IF ~Converts(o3.tok) THEN Stop("invalid_argument", n2, o3)
             ELSE /\ nodes' = linked
                  /\ pos' = t3.pos /\ currentToken' = t3.tok
                  /\ IF t3.tok # "}" THEN Leave("failure") /\ UNCHANGED nodeQueue
                     ELSE /\ nodeQueue' = Append(nodeQueue, Len(nodes) + 1)
                          /\ pc' = pc /\ result' = result
    /\ UNCHANGED <<tokens, rootVect, motionVars, hostVars>>

\* lines 254-278: an End block inside an open joint
ParseEndSite ==
    /\ pc = "body"
    /\ nodeQueue # <<>>
    /\ LET t == Extract(tokens, pos, currentToken)
           nm == Extract(tokens, t.pos, NewNode.name)
           t1 == Extract(tokens, nm.pos, t.tok)
           t2 == Extract(tokens, t1.pos, t1.tok)
           o1 == Extract(tokens, t2.pos, t2.tok)
           o2 == Extract(tokens, o1.pos, o1.tok)
           o3 == Extract(tokens, o2.pos, o2.tok)
           t3 == Extract(tokens, o3.pos, o3.tok)
           top == Back(nodeQueue)
           n0 == [NewNode EXCEPT !.name = nm.tok]
           n1 == [n0 EXCEPT !.offset[1] = stof(o1.tok)]
           n2 == [n1 EXCEPT !.offset[2] = stof(o2.tok)]
           n3 == [n2 EXCEPT !.offset[3] = stof(o3.tok)]
           linked == Link(nodes, top, n3)
           Stop(how, n, x) == /\ Leave(how)
                              /\ nodes' = Append(nodes, n)
                              /\ pos' = x.pos /\ currentToken' = x.tok
       IN /\ t.tok = "End"
          /\ IF t1.tok # "{" THEN Stop("failure", n0, t1)
             ELSE IF t2.tok # "OFFSET" THEN Stop("failure", n0, t2)
             ELSE IF ~Converts(o1.tok) THEN Stop("invalid_argument", n0, o1)
             ELSE IF ~Converts(o2.tok) THEN Stop("invalid_argument", n1, o2)
             ELSE IF ~Converts(o3.tok) THEN Stop("invalid_argument", n2, o3)
             ELSE /\ nodes' = linked
                  /\ pos' = t3.pos /\ currentToken' = t3.tok
                  /\ IF t3.tok # "}" THEN Leave("failure")
                                     ELSE pc' = pc /\ result' = result
    /\ UNCHANGED <<tokens, rootVect, nodeQueue, motionVars, hostVars>>

\* CloseJoint with the loop of line 242 left after the first "}": line 287 reads
\* the next token although joints are still open
CloseJoint_Early ==
    /\ pc = "body"
    /\ nodeQueue # <<>>
    /\ LET t == Extract(tokens, pos, currentToken)
           a == Extract(tokens, t.pos, t.tok)
       IN /\ t.tok = "}"
          /\ pos' = a.pos /\ currentToken' = a.tok
          /\ nodeQueue' = PopBack(nodeQueue)
    /\ pc' = "roots"
    /\ UNCHANGED <<tokens, treeVars, motionVars, hostVars, result>>

\* lines 242-243, 279-281
CloseJoint ==
    /\ pc = "body"
    /\ nodeQueue # <<>>
    /\ LET t == Extract(tokens, pos, currentToken)
       IN /\ t.tok = "}"
          /\ pos' = t.pos /\ currentToken' = t.tok
          /\ nodeQueue' = PopBack(nodeQueue)
    /\ UNCHANGED <<tokens, treeVars, pc, motionVars, hostVars, result>>

\* UnexpectedBodyToken with the final else branch left out: the token is dropped
UnexpectedBodyToken_Skips ==
    /\ pc = "body"
    /\ nodeQueue # <<>>
    /\ LET t == Extract(tokens, pos, currentToken)
       IN /\ t.tok \notin {"JOINT", "End", "}"}
          /\ pos' = t.pos /\ currentToken' = t.tok
    /\ UNCHANGED <<tokens, treeVars, nodeQueue, pc, motionVars, hostVars, result>>

\* lines 242-243, 282-285
UnexpectedBodyToken ==
    /\ pc = "body"
    /\ nodeQueue # <<>>
    /\ LET t == Extract(tokens, pos, currentToken)
       IN /\ t.tok \notin {"JOINT", "End", "}"}
          /\ pos' = t.pos /\ currentToken' = t.tok
          /\ Leave("failure")
    /\ UNCHANGED <<tokens, treeVars, nodeQueue, motionVars, hostVars>>

\* lines 242, 287: the root is closed, the token after it is read
ReadAfterRoot ==
    /\ pc = "body"
    /\ nodeQueue = <<>>
    /\ LET t == Extract(tokens, pos, currentToken)
       IN pos' = t.pos /\ currentToken' = t.tok
    /\ pc' = "roots"
    /\ UNCHANGED <<tokens, treeVars, nodeQueue, motionVars, hostVars, result>>

\* lines 234, 290-326: MOTION Frames: <int> Frame Time: <float>
ParseMotionHeader ==
    /\ pc = "roots"
    /\ currentToken # "ROOT"
    /\ LET t1 == Extract(tokens, pos, currentToken)
           t2 == Extract(tokens, t1.pos, t1.tok)
           t3 == Extract(tokens, t2.pos, t2.tok)
           t4 == Extract(tokens, t3.pos, t3.tok)
           t5 == Extract(tokens, t4.pos, t4.tok)
           frames == stoi(t2.tok)
           Stop(how, x, nf) == /\ Leave(how)
                               /\ pos' = x.pos /\ currentToken' = x.tok
                               /\ nbFrames' = nf
                               /\ UNCHANGED <<timeFrame, nodeQueue>>
       IN IF currentToken # "MOTION"
          THEN /\ Leave("failure")
               /\ UNCHANGED <<pos, currentToken, nbFrames, timeFrame, nodeQueue>>
          ELSE IF t1.tok # "Frames:" THEN Stop("failure", t1, nbFrames)
          ELSE IF ~Converts(t2.tok) THEN Stop("invalid_argument", t2, nbFrames)
          ELSE IF t3.tok # "Frame" THEN Stop("failure", t3, frames)
          ELSE IF t4.tok # "Time:" THEN Stop("failure", t4, frames)
          ELSE IF ~Converts(t5.tok) THEN Stop("invalid_argument", t5, frames)
          ELSE /\ pos' = t5.pos /\ currentToken' = t5.tok
               /\ nbFrames' = frames
               /\ timeFrame' = stof(t5.tok)
               /\ nodeQueue' = <<>>
               /\ pc' = "frames" /\ result' = result
    /\ UNCHANGED <<tokens, treeVars, time, i, rootIndex, node, childIndex, hostVars>>

----------------------------------------------------------------------------
(* Motion section: lines 328-345 *)

\* line 328: the loop test, true
EnterFrame ==
    /\ pc = "frames"
    /\ i < nbFrames
    /\ pc' = "rootIter"
    /\ rootIndex' = 1
    /\ UNCHANGED <<tokens, streamVars, treeVars, nodeQueue, nbFrames, timeFrame, time,
                   i, node, childIndex, hostVars, result>>

\* lines 329-330: the next root is pushed
BeginRoot ==
    /\ pc = "rootIter"
    /\ rootIndex <= Len(rootVect)
    /\ nodeQueue' = Append(nodeQueue, rootVect[rootIndex])
    /\ pc' = "visit"
    /\ UNCHANGED <<tokens, streamVars, treeVars, motionVars, hostVars, result>>

\* lines 331-338: a Node is popped and handed to readAnimNode
VisitNode ==
    /\ pc = "visit"
    /\ nodeQueue # <<>>
    /\ LET n == Back(nodeQueue)
           ra == readAnimNode(nodes[n], tokens, pos, time)
       IN /\ node' = n
          /\ nodeQueue' = PopBack(nodeQueue)
          /\ nodes' = [nodes EXCEPT ![n] = ra.node]
          /\ pos' = ra.pos
          /\ IF ~ra.ret
             THEN Leave("failure") /\ UNCHANGED childIndex
             ELSE /\ childIndex' = Len(nodes[n].children) - 1
                  /\ pc' = "children" /\ result' = result
    /\ UNCHANGED <<tokens, currentToken, rootVect, nbFrames, timeFrame, time, i,
                   rootIndex, hostVars>>

\* lines 338-341: one pass of the loop body; the loop statement is i--, and
\* childIndex is left as it is.  push_back throws std::bad_alloc once the
\* deque holds MemCapacity elements.
PushChild ==
    /\ pc = "children"
    /\ childIndex >= 0
    /\ IF Len(nodeQueue) >= MemCapacity
       THEN Leave("bad_alloc") /\ UNCHANGED <<nodeQueue, i>>
       ELSE /\ nodeQueue' = Append(nodeQueue, nodes[node].children[childIndex + 1])
            /\ i' = i - 1
            /\ UNCHANGED <<pc, result>>
    /\ UNCHANGED <<tokens, streamVars, treeVars, nbFrames, timeFrame, time, rootIndex,
                   node, childIndex, hostVars>>

\* line 338: the loop test, false
ChildrenDone ==
    /\ pc = "children"
    /\ childIndex < 0
    /\ pc' = "visit"
    /\ UNCHANGED <<tokens, streamVars, treeVars, nodeQueue, motionVars, hostVars, result>>

\* line 331: the queue is empty, the range-for goes to the next root
EndRoot ==
    /\ pc = "visit"
    /\ nodeQueue = <<>>
    /\ rootIndex' = rootIndex + 1
    /\ pc' = "rootIter"
    /\ UNCHANGED <<tokens, streamVars, treeVars, nodeQueue, nbFrames, timeFrame, time,
                   i, node, childIndex, hostVars, result>>

\* lines 344, 328: time += timeFrame; i++
EndFrame ==
    /\ pc = "rootIter"
    /\ rootIndex > Len(rootVect)
    /\ time' = time + timeFrame
    /\ i' = i + 1
    /\ pc' = "frames"
    /\ UNCHANGED <<tokens, streamVars, treeVars, nodeQueue, nbFrames, timeFrame,
                   rootIndex, node, childIndex, hostVars, result>>

\* FramesDone with the loop test left out: the frame loop is left at any frame
FramesDone_Early ==
    /\ pc = "frames"
    /\ pc' = "create"
    /\ rootIndex' = 1
    /\ UNCHANGED <<tokens, streamVars, treeVars, nodeQueue, nbFrames, timeFrame, time,
                   i, node, childIndex, hostVars, result>>

\* lines 328, 347: the loop test, false
FramesDone ==
    /\ pc = "frames"
    /\ i >= nbFrames
    /\ pc' = "create"
    /\ rootIndex' = 1
    /\ UNCHANGED <<tokens, streamVars, treeVars, nodeQueue, nbFrames, timeFrame, time,
                   i, node, childIndex, hostVars, result>>

----------------------------------------------------------------------------
(* Host binding: Node::mayaCreate, lines 112-128, and lines 349-354 *)

\* line 120: the local MString name is initialised from itself, not from the
\* member it hides; the string handed to setName is indeterminate
NameArgument(n) == {nodes[n].name, Indeterminate}

\* mayaCreate taking the else branch of line 114 for every Node
mayaCreate_NoParent(n, created, nm) ==
    LET handle == IF created THEN Len(requests) + 1 ELSE Null
    IN /\ requests' = Append(requests,
              [joint |-> n, hasParent |-> FALSE, parent |-> Null, handle |-> handle,
               name |-> nm, translation |-> nodes[n].offset])
       /\ nodes' = [nodes EXCEPT ![n].jointObj = handle]

\* lines 113-123 for Node n: MFnIkJoint::create under the parent's jointObj (or
\* without a parent), then setName and setTranslation.  created tells whether
\* the host made the joint: the handle is then a new one, else the null MObject.
mayaCreate(n, created, nm) ==
    LET handle == IF created THEN Len(requests) + 1 ELSE Null
        par == nodes[n].parent
    IN /\ requests' = Append(requests,
              [joint |-> n,
               hasParent |-> par # Null,
               parent |-> IF par # Null THEN nodes[par].jointObj ELSE Null,
               handle |-> handle,
               name |-> nm,
               translation |-> nodes[n].offset])
       /\ nodes' = [nodes EXCEPT ![n].jointObj = handle]

\* lines 350-351: root->mayaCreate() is called
CreateRoot ==
    /\ pc = "create"
    /\ callStack = <<>>
    /\ rootIndex <= Len(rootVect)
    /\ \E created \in BOOLEAN : \E nm \in NameArgument(rootVect[rootIndex]) :
          mayaCreate(rootVect[rootIndex], created, nm)
    /\ callStack' = <<[node |-> rootVect[rootIndex], child |-> 1]>>
    /\ UNCHANGED <<tokens, streamVars, rootVect, nodeQueue, pc, motionVars, result>>

\* lines 125-126: child->mayaCreate() is called for the next child
CreateChild ==
    /\ pc = "create"
    /\ callStack # <<>>
    /\ LET top == Back(callStack)
           kids == nodes[top.node].children
       IN /\ top.child <= Len(kids)
          /\ \E created \in BOOLEAN : \E nm \in NameArgument(kids[top.child]) :
                mayaCreate(kids[top.child], created, nm)
          /\ callStack' = Append([callStack EXCEPT ![Len(callStack)].child = @ + 1],
                                 [node |-> kids[top.child], child |-> 1])
    /\ UNCHANGED <<tokens, streamVars, rootVect, nodeQueue, pc, motionVars, result>>

\* line 128: mayaCreate returns; a returning root call moves the loop of line 350 on
CreateReturn ==
    /\ pc = "create"
    /\ callStack # <<>>
    /\ Back(callStack).child > Len(nodes[Back(callStack).node].children)
    /\ callStack' = PopBack(callStack)
    /\ rootIndex' = IF Len(callStack) = 1 THEN rootIndex + 1 ELSE rootIndex
    /\ UNCHANGED <<tokens, streamVars, treeVars, nodeQueue, pc, nbFrames, timeFrame,
                   time, i, node, childIndex, requests, result>>

\* line 354: return rval
ReturnSuccess ==
    /\ pc = "create"
    /\ callStack = <<>>
    /\ rootIndex > Len(rootVect)
    /\ Leave("success")
    /\ UNCHANGED <<tokens, streamVars, treeVars, nodeQueue, motionVars, hostVars>>

----------------------------------------------------------------------------

Next ==
    \/ OpenFails \/ OpenFile
    \/ ReadHierarchyKeyword \/ ParseRoot \/ ParseJoint \/ ParseEndSite \/ CloseJoint
    \/ UnexpectedBodyToken \/ ReadAfterRoot \/ ParseMotionHeader
    \/ EnterFrame \/ BeginRoot \/ VisitNode \/ PushChild \/ ChildrenDone \/ EndRoot
    \/ EndFrame \/ FramesDone
    \/ CreateRoot \/ CreateChild \/ CreateReturn \/ ReturnSuccess

Spec == Init /\ [][Next]_vars

----------------------------------------------------------------------------
(* Properties *)

Returned == result \in {"success", "failure"}

RECURSIVE SumChannels(_)
\* channels of the first n Nodes together
SumChannels(n) == IF n = 0 THEN 0 ELSE SumChannels(n - 1) + Len(nodes[n].channels)

\* tokens of the file up to and including the value after Time:
HeaderEnd == 1 + CHOOSE p \in 1..Len(tokens) : tokens[p] = "Time:"

\* the value the file gives for channel c of Node n in frame f (f from 0)
FileValue(n, f, c) ==
    stof(tokens[HeaderEnd + f * SumChannels(Len(nodes)) + SumChannels(n - 1) + c])

\* the motion section holds the frameCount * (channels of all joints) tokens
\* the frames need, all of them numbers
MotionComplete ==
    LET needed == nbFrames * SumChannels(Len(nodes))
    IN /\ Len(tokens) - HeaderEnd >= needed
       /\ \A p \in (HeaderEnd + 1)..(HeaderEnd + needed) : Converts(tokens[p])

\* C1: after reader returns success with frame count N (on a well-formed file,
\* which holds the values of N frames), every joint with k >= 1 channels holds exactly N
\* value rows, each of length k, row f holding the k values the file gives
\* for that joint in frame f, in file order.
C1_ValueRowsFilled ==
    result = "success" /\ nbFrames > 0 /\ tokens \in WellFormedFiles /\ MotionComplete =>
        \A n \in 1..Len(nodes) :
            LET k == Len(nodes[n].channels)
                rows == nodes[n].channelValues
            IN k >= 1 =>
                /\ Len(rows) = nbFrames
                /\ \A f \in 1..Len(rows) :
                      /\ Len(rows[f]) = k
                      /\ \A c \in 1..k : rows[f][c] = FileValue(n, f - 1, c)

\* reader is in the per-frame loop of lines 328-345
InMotionLoop == pc \in {"frames", "rootIter", "visit", "children"}

\* C2: reader terminates by returning success or a failure; in particular
\* the per-frame traversal loop finishes for every skeleton and every frame
\* count: it is left only with all frames done or by a returned failure.
C2_TraversalLoopFinishes ==
    [][InMotionLoop => InMotionLoop' \/ pc' = "create" \/ result' = "failure"]_vars

\* C3: in each frame the joints are visited once each in pre-order, the order
\* in which hierarchy parsing discovered (allocated) them, and the frame index
\* is changed only by the per-frame increment.
C3_PreorderAndFrameIndex ==
    [][ /\ (i' # i => pc = "rootIter" /\ pc' = "frames" /\ i' = i + 1)
        /\ (pc = "visit" /\ pc' = "children" => node' = (node % Len(nodes)) + 1)
      ]_vars

\* the stream holds a p-th token
Has(p) == p >= 1 /\ p <= Len(tokens)

\* The block the next step of reader reads, if it reads one: the position of
\* its name token (0 if none) and whether it is an End block.  After the name
\* come "{", OFFSET, three numbers, and then CHANNELS and its count (ROOT,
\* JOINT) or "}" (End).
BlockIsEnd == pc = "body" /\ nodeQueue # <<>> /\ Has(pos + 1) /\ tokens[pos + 1] = "End"
BlockBase ==
    IF pc = "roots" /\ currentToken = "ROOT" THEN pos + 1
    ELSE IF pc = "body" /\ nodeQueue # <<>> /\ Has(pos + 1)
            /\ tokens[pos + 1] \in {"JOINT", "End"} THEN pos + 2
    ELSE 0
\* the block's tokens are as required up to, not including, the one at BlockBase + n
BlockGoodBefore(n) ==
    /\ BlockBase > 0
    /\ Has(BlockBase + n)
    /\ n > 1 => tokens[BlockBase + 1] = "{"
    /\ n > 2 => tokens[BlockBase + 2] = "OFFSET"
    /\ \A j \in 3..5 : n > j => Converts(tokens[BlockBase + j])
    /\ n > 6 => tokens[BlockBase + 6] = "CHANNELS"
\* likewise for MOTION Frames: <int> Frame Time: <float>, MOTION being the
\* token read last
HeaderGoodBefore(n) ==
    /\ pc = "roots" /\ currentToken = "MOTION"
    /\ Has(pos + n)
    /\ n > 1 => tokens[pos + 1] = "Frames:"
    /\ n > 2 => Converts(tokens[pos + 2])
    /\ n > 3 => tokens[pos + 3] = "Frame"
    /\ n > 4 => tokens[pos + 4] = "Time:"

\* the next step of reader meets a token that is not a number at a numeric position
BadNumberAhead ==
    \/ \E j \in 3..5 : BlockGoodBefore(j) /\ ~Converts(tokens[BlockBase + j])
    \/ ~BlockIsEnd /\ BlockGoodBefore(7) /\ ~Converts(tokens[BlockBase + 7])
    \/ HeaderGoodBefore(2) /\ ~Converts(tokens[pos + 2])
    \/ HeaderGoodBefore(5) /\ ~Converts(tokens[pos + 5])

\* C5: a token that is not a number at a numeric position (an OFFSET
\* component, the CHANNELS count, the Frames: count, the Frame Time: value)
\* makes reader return failure to its caller.
C5_NumericErrorIsReturned == [][BadNumberAhead => result' = "failure"]_vars

\* C6: reader returns success only if the motion section holds at least
\* frameCount * (channels of all joints) tokens after the header, all numbers.
C6_ShortMotionFails == result = "success" /\ nbFrames > 0 => MotionComplete

\* C7: when reader returns failure, every joint allocated during the parse
\* has been released.
C7_NoLeakOnFailure ==
    result = "failure" => (1..Len(nodes)) \ Released = {}

\* in the step reader stops with failure at token p: no later token is consumed
FailsAtToken(p) == result' = "failure" /\ pos' = p /\ requests' = <<>>
\* and the joint it was reading is linked nowhere
FailsAt(p) ==
    /\ FailsAtToken(p)
    /\ rootVect' = rootVect
    /\ \A n \in 1..Len(nodes) : nodes'[n].children = nodes[n].children

\* C4: a token other than the one required at its position (HIERARCHY; "{"
\* after a joint name; OFFSET after "{"; "}" closing an End Site; JOINT, End
\* or "}" inside an open joint body; MOTION after the last root; Frames:,
\* Frame, Time:) makes reader return failure at that token: no later token is
\* consumed, no joint is linked and no scene node is created.
C4_WrongTokenFails ==
    [][ /\ (pc = "start" /\ Has(pos + 1) /\ tokens[pos + 1] # "HIERARCHY"
               => FailsAt(pos + 1))
        /\ (BlockGoodBefore(1) /\ tokens[BlockBase + 1] # "{"
               => FailsAt(BlockBase + 1))
        /\ (BlockGoodBefore(2) /\ tokens[BlockBase + 2] # "OFFSET"
               => FailsAt(BlockBase + 2))
        /\ (BlockIsEnd /\ BlockGoodBefore(6) /\ tokens[BlockBase + 6] # "}"
               => FailsAtToken(BlockBase + 6))
        /\ (~BlockIsEnd /\ BlockGoodBefore(6)
              /\ tokens[BlockBase + 6] \notin {"CHANNELS", "JOINT", "End", "}"}
               => FailsAt(BlockBase + 6))
        /\ (pc = "body" /\ nodeQueue # <<>> /\ Has(pos + 1)
              /\ tokens[pos + 1] \notin {"JOINT", "End", "}"}
               => FailsAt(pos + 1))
        /\ (pc = "roots" /\ currentToken \notin {"ROOT", "MOTION"}
               => FailsAt(pos))
        /\ (HeaderGoodBefore(1) /\ tokens[pos + 1] # "Frames:" => FailsAt(pos + 1))
        /\ (HeaderGoodBefore(3) /\ tokens[pos + 3] # "Frame" => FailsAt(pos + 3))
        /\ (HeaderGoodBefore(4) /\ tokens[pos + 4] # "Time:" => FailsAt(pos + 4))
      ]_vars

\* reader has stopped at BADTOKEN inside the open body of a parsed root
C4_Witness ==
    /\ result = "failure"
    /\ Len(rootVect) = 1 /\ nodeQueue # <<>>
    /\ Has(pos) /\ tokens[pos] = "BADTOKEN" /\ currentToken = "BADTOKEN"
    /\ pos < Len(tokens)

\* positions of the ROOT, JOINT and End Site keywords of the file
JointKeywords(toks) ==
    { p \in 1..Len(toks) :
        \/ toks[p] \in {"ROOT", "JOINT"}
        \/ toks[p] = "End" /\ p < Len(toks) /\ toks[p + 1] = "Site" }

RECURSIVE LinksTo(_, _)
\* how often Node n is held by rootVect or by the children of the first m Nodes
LinksTo(n, m) ==
    IF m = 0 THEN Cardinality({k \in DOMAIN rootVect : rootVect[k] = n})
    ELSE LinksTo(n, m - 1)
         + Cardinality({k \in DOMAIN nodes[m].children : nodes[m].children[k] = n})

\* the while loop of line 234 is left
HierarchyParsed ==
    \/ pc = "roots" /\ currentToken # "ROOT"
    \/ InMotionLoop \/ pc = "create"
    \/ pc = "done" /\ result \in {"success", "bad_alloc"}

\* C8: on a well-formed file, when hierarchy parsing completes, the joints
\* created and linked into the root trees are as many as the ROOT, JOINT and
\* End Site keywords of the file, each joint linked once.
C8_OneJointPerKeyword ==
    tokens \in WellFormedFiles /\ HierarchyParsed =>
        /\ Len(nodes) = Cardinality(JointKeywords(tokens))
        /\ \A n \in 1..Len(nodes) : LinksTo(n, Len(nodes)) = 1

\* a root, a JOINT below it and an End Site below the JOINT are parsed
C8_Witness ==
    /\ tokens \in WellFormedFiles /\ pc = "frames"
    /\ Len(nodes) = 3 /\ Cardinality(JointKeywords(tokens)) = 3
    /\ nodes[2].parent = 1 /\ nodes[3].parent = 2 /\ nodes[3].name = "Site"

\* C9: no scene-node creation request is issued before the hierarchy and all
\* frameCount frames are parsed without error; a run that returns failure has
\* issued none.
C9_NoRequestBeforeParsed ==
    /\ result = "failure" => requests = <<>>
    /\ requests # <<>> =>
          /\ pc = "create" \/ result = "success"
          /\ i >= nbFrames

\* reader has returned failure on a bad motion header, two joints parsed
C9_Witness ==
    /\ result = "failure"
    /\ Len(nodes) >= 2 /\ Len(rootVect) >= 1 /\ nodeQueue = <<>>
    /\ \E p \in 1..pos : tokens[p] = "MOTION"
    /\ requests = <<>>

RECURSIVE Preorder(_), PreorderAll(_)
\* Node n and its descendants, parent before children, children in order
Preorder(n) == <<n>> \o PreorderAll(nodes[n].children)
PreorderAll(ns) == IF ns = <<>> THEN <<>> ELSE Preorder(Head(ns)) \o PreorderAll(Tail(ns))

\* C10: in the host-binding walk every joint of every root, End Sites
\* included, gets exactly one creation request; roots in declaration order,
\* each tree in pre-order; a non-root joint's request comes after its parent's
\* and carries the handle the parent's request produced; a root's carries none.
C10_HostWalk ==
    pc = "create" \/ result = "success" =>
        LET walk == PreorderAll(rootVect)
        IN /\ Len(requests) <= Len(walk)
           /\ \A k \in 1..Len(requests) : requests[k].joint = walk[k]
           /\ result = "success" =>
                 /\ Len(requests) = Len(walk)
                 /\ \A n \in 1..Len(nodes) :
                       Cardinality({k \in 1..Len(requests) : requests[k].joint = n}) = 1
           /\ \A k \in 1..Len(requests) :
                 LET par == nodes[requests[k].joint].parent
                 IN IF par = Null
                    THEN ~requests[k].hasParent
                    ELSE /\ requests[k].hasParent
                         /\ \E j \in 1..(k - 1) :
                               /\ requests[j].joint = par
                               /\ requests[k].parent = requests[j].handle

\* the walk is over for a root with a JOINT child and an End Site child, both
\* created under the handle of the root
C10_Witness ==
    /\ result = "success"
    /\ Len(requests) = 3
    /\ nodes[2].parent = 1 /\ nodes[3].parent = 1 /\ nodes[3].name = "Site"
    /\ requests[1].handle # Null
    /\ requests[2].parent = requests[1].handle
    /\ requests[3].parent = requests[1].handle

\* C11: if the host rejects a creation request, no later request is issued
\* and reader returns failure.
C11_RejectionAborts ==
    \A k \in 1..Len(requests) :
        requests[k].handle = Null => k = Len(requests) /\ result # "success"

\* C12: ROOT and MOTION are accepted only when the open-joint stack is empty
\* (every root is closed before the next ROOT or MOTION is processed); a ROOT
\* or MOTION token met inside an open joint body makes reader return failure;
\* each accepted ROOT appends one new root after the earlier ones; and the
\* first token after a closed root that is not ROOT must be MOTION, else
\* reader returns failure.
C12_RootsAtEmptyStack ==
    /\ [](pc = "roots" => nodeQueue = <<>>)
    /\ [][ /\ (rootVect' # rootVect =>
                  /\ pc = "roots" /\ currentToken = "ROOT" /\ nodeQueue = <<>>
                  /\ rootVect' = Append(rootVect, Len(nodes) + 1)
                  /\ Len(nodes') = Len(nodes) + 1)
           /\ (nbFrames' # nbFrames => pc = "roots" /\ currentToken = "MOTION")
           /\ (pc = "body" /\ nodeQueue # <<>> /\ Has(pos + 1)
                 /\ tokens[pos + 1] \in {"ROOT", "MOTION"}
                  => result' = "failure" /\ treeVars' = treeVars /\ pos' = pos + 1)
           /\ (pc = "roots" /\ currentToken \notin {"ROOT", "MOTION"}
                  => result' = "failure" /\ treeVars' = treeVars)
         ]_vars

\* a second root was accepted after the first was closed, and reader has
\* stopped at a ROOT token met inside the open body of the second
C12_Witness ==
    /\ result = "failure"
    /\ Len(rootVect) = 2 /\ rootVect[1] < rootVect[2]
    /\ nodeQueue # <<>> /\ nodeQueue[1] = rootVect[2]
    /\ Has(pos) /\ tokens[pos] = "ROOT" /\ currentToken = "ROOT"

\* the Nodes made from an End Site block: no ROOT or JOINT of the files read is
\* named Site
EndSites == {n \in 1..Len(nodes) : nodes[n].name = "Site"}

\* C13: in every reachable state a joint created from an End Site block has
\* an empty channel list and no children and holds no value row; during
\* hierarchy parsing it is never on the open-joint stack; and the visit of a
\* joint without channels in a frame consumes no token and stores no row.
C13_EndSiteIsBareLeaf ==
    /\ [](\A n \in EndSites :
             /\ nodes[n].channels = <<>>
             /\ nodes[n].children = <<>>
             /\ nodes[n].channelValues = <<>>
             /\ pc \in {"start", "roots", "body"} =>
                   \A k \in 1..Len(nodeQueue) : nodeQueue[k] # n)
    /\ [][pc = "visit" /\ nodeQueue # <<>> /\ nodes[Back(nodeQueue)].channels = <<>>
             => pos' = pos /\ nodes' = nodes]_vars

\* an End Site was linked below an open JOINT, which is still on the stack
C13_Witness ==
    /\ pc = "body" /\ result = "none"
    /\ Len(nodeQueue) = 2
    /\ \E n \in EndSites : nodes[n].parent = nodeQueue[2] /\ tokens[pos] = "}"

\* C14: during hierarchy parsing the open-joint stack is the chain from the
\* root being parsed to the innermost open joint, each element the parent of
\* the one above it; an accepted JOINT pushes exactly one element, the new
\* child of the previous top; an End Site leaves the stack as it is; a "}"
\* pops exactly one element, never from an empty stack; and the stack becomes
\* empty exactly when the root's own "}" is consumed.
C14_StackIsOpenChain ==
    /\ [](pc \in {"roots", "body"} =>
             /\ nodeQueue # <<>> => nodeQueue[1] = rootVect[Len(rootVect)]
             /\ \A k \in 2..Len(nodeQueue) : nodes[nodeQueue[k]].parent = nodeQueue[k - 1])
    /\ [][pc = "body" =>
             /\ (Len(nodeQueue') > Len(nodeQueue) =>
                    /\ Has(pos + 1) /\ tokens[pos + 1] = "JOINT"
                    /\ nodeQueue' = Append(nodeQueue, Len(nodes) + 1)
                    /\ nodes'[Len(nodes) + 1].parent = Back(nodeQueue))
             /\ (Has(pos + 1) /\ tokens[pos + 1] = "End" => nodeQueue' = nodeQueue)
             /\ (Len(nodeQueue') < Len(nodeQueue) =>
                    /\ nodeQueue # <<>> /\ nodeQueue' = PopBack(nodeQueue)
                    /\ pos' = pos + 1 /\ tokens[pos'] = "}")
         ]_vars

\* how often Node n is held by the children of Node m
HeldBy(n, m) == Cardinality({k \in DOMAIN nodes[m].children : nodes[m].children[k] = n})

\* C15: in every reachable state the joints form a forest: a root has no
\* parent; a joint with a parent is held exactly once by the children of that
\* parent and by no other joint, a joint without one by none; each children
\* list is in the order of declaration in the file (the order of allocation);
\* and a parent reference, once set, is never changed.
C15_Forest ==
    /\ [](/\ \A k \in 1..Len(rootVect) : nodes[rootVect[k]].parent = Null
          /\ \A n \in 1..Len(nodes) : \A m \in 1..Len(nodes) :
                HeldBy(n, m) = IF nodes[n].parent = m THEN 1 ELSE 0
          /\ \A n \in 1..Len(nodes) :
                /\ nodes[n].parent # Null => nodes[n].parent \in 1..(n - 1)
                /\ \A k \in 2..Len(nodes[n].children) :
                      nodes[n].children[k - 1] < nodes[n].children[k])
    /\ [][\A n \in 1..Len(nodes) :
             nodes[n].parent # Null => nodes'[n].parent = nodes[n].parent]_vars

\* host binding goes on over a root whose two children were declared one
\* after the other
C15_Witness ==
    /\ pc = "create" /\ requests # <<>>
    /\ Len(nodes) = 3 /\ rootVect = <<1>>
    /\ nodes[1].children = <<2, 3>>
    /\ nodes[2].parent = 1 /\ nodes[3].parent = 1

\* C16: inside an open joint body the token End must be followed at once by
\* the token Site: with any other token after End reader returns failure
\* and no End Site joint is added to the tree.
C16_EndNeedsSite ==
    [][BlockIsEnd /\ Has(pos + 2) /\ tokens[pos + 2] # "Site" =>
          /\ result' = "failure"
          /\ \A n \in 1..Len(nodes) : nodes'[n].children = nodes[n].children]_vars

\* the next step of reader reads a ROOT or JOINT block whose three OFFSET
\* values are followed directly by JOINT, End or "}"
NoChannelsClause ==
    /\ ~BlockIsEnd /\ BlockGoodBefore(6)
    /\ tokens[BlockBase + 6] \in {"JOINT", "End", "}"}

\* C17 as stated: the CHANNELS clause of a ROOT or JOINT block is optional; a
\* block whose three OFFSET values are followed directly by JOINT, End or "}"
\* is accepted, the joint is created with an empty channel list and parsing
\* goes on in the joint's body.
C17_ChannelsOptional ==
    [][NoChannelsClause =>
          /\ result' = "none" /\ pc' = "body"
          /\ nodes'[Len(nodes) + 1].channels = <<>>
          /\ nodeQueue' = Append(nodeQueue, Len(nodes) + 1)]_vars

\* C17, amended: the CHANNELS clause of a ROOT or JOINT block is required; a
\* block whose three OFFSET values are followed directly by JOINT, End or "}"
\* makes reader return failure at that token, the joint being linked nowhere.
C17_ChannelsRequired ==
    [][NoChannelsClause => FailsAt(BlockBase + 6) /\ nodeQueue' = nodeQueue]_vars

\* reader has stopped at the End that follows the OFFSET values of a JOINT
C17_Witness ==
    /\ result = "failure"
    /\ pos > 7 /\ tokens[pos] = "End"
    /\ tokens[pos - 4] = "OFFSET" /\ tokens[pos - 7] = "JOINT"
    /\ \A j \in 1..3 : Converts(tokens[pos - j])
    /\ nodes[Len(nodes)].name = tokens[pos - 6]
    /\ nodes[Len(nodes)].parent = Null /\ Len(nodes) \notin {rootVect[k] : k \in DOMAIN rootVect}

\* C18: the creation request issued for a joint carries that joint's own name
\* as read from the file and its own three offset values.
C18_RequestCarriesNameAndOffset ==
    \A k \in 1..Len(requests) :
        /\ requests[k].name = nodes[requests[k].joint].name
        /\ requests[k].translation = nodes[requests[k].joint].offset

\* C19: every parser action is driven by a freshly consumed token: once the
\* token stream is exhausted, the body of an open joint pops no joint and
\* creates and links none, and reader returns failure; and a joint read in a
\* step holds no more channel names than the step consumed tokens.
C19_NoActionOnStaleToken ==
    [][(pc = "roots" \/ pc = "body") =>
          /\ (pos = Len(tokens) /\ pc = "body" /\ nodeQueue # <<>> =>
                 nodeQueue' = nodeQueue /\ treeVars' = treeVars /\ result' = "failure")
          /\ (pos = Len(tokens) /\ pc = "roots" => result' = "failure")
          /\ \A n \in (Len(nodes) + 1)..Len(nodes') :
                pos' - pos >= Len(nodes'[n].channels)]_vars

\* positions of the CHANNELS keywords of the hierarchy section
ChannelsClauses ==
    { p \in 1..(Len(tokens) - 1) :
        tokens[p] = "CHANNELS" /\ \A q \in 1..p : tokens[q] # "MOTION" }

RECURSIVE SumCounts(_)
\* the counts after the CHANNELS keywords at the positions ps, together
SumCounts(ps) ==
    IF ps = {} THEN 0
    ELSE LET p == CHOOSE q \in ps : TRUE
         IN stoi(tokens[p + 1]) + SumCounts(ps \ {p})

\* C20: when reader returns success, the frame count read after Frames: is
\* >= 0, and the count read after each CHANNELS is >= 0 and is the number of
\* channel names stored for that joint: a negative value in either position
\* does not pass for zero.
C20_CountsNotNegative ==
    result = "success" =>
        /\ nbFrames >= 0
        /\ \A p \in ChannelsClauses : stoi(tokens[p + 1]) >= 0
        /\ SumChannels(Len(nodes)) = SumCounts(ChannelsClauses)
====
